---- MODULE Spec2Model ----
(***************************************************************************)
(* Model of biscuit's AI view (src/biscuit/views/ai/ai.py) and of the      *)
(* Settings command registry and Formattable                              *)
(* (src/biscuit/settings/settings.py).                                     *)
(*                                                                         *)
(* Three specifications share the module's variables:                      *)
(*   Spec          the AI view: providers, secret store, chat sessions     *)
(*   SettingsSpec  the palette command registry and its ActionSet          *)
(*   FormatSpec    Formattable.format applied to bounded terms             *)
(***************************************************************************)
EXTENDS Integers, Sequences, FiniteSets, TLC

\* ------------------------------------------------------------------ bounds
\* Chat sessions constructed over one run of the AI view.
MaxSessions == 3
\* destroy() calls one Chat object receives.
MaxDestroys == 2

\* ------------------------------------------------------- AI view: values
None == 0
NoModel == [factory |-> "", credential |-> ""]
PlaceholderItem == -1
DefaultProvider == "Gemini 1.5 Flash"
DefaultFactory == "Gemini1p5Flash"
SecretKey == "GEMINI_API_KEY"

\* Inputs the operations are driven with.
Credentials == {"a1", "a2"}
ProviderNames == {DefaultProvider, "B", "C"}
RegistrableNames == {DefaultProvider, "B"}
Factories == {DefaultFactory, "F1"}

VARIABLES
    chat,              \* self.chat: None or the id of a Chat object
    api_key,           \* self.api_key
    api_providers,     \* self.api_providers: name -> factory
    dropdown,          \* provider names the dropdown offers
    current_provider,  \* self.current_provider
    store,             \* rows of table secrets in secrets.db
    sessions,          \* every Chat constructed so far, by id
    items,             \* items shown in the drawer view
    placeholder_key,   \* self.placeholder.api_key
    raised,            \* exception the last operation raised to its caller
    peak_live,         \* most Chat objects alive at once, handler-internal points included
    lastOp,            \* the last operation called, its argument and the state it met
    lastReg            \* name -> factory of the latest register_provider call

aiVars == <<chat, api_key, api_providers, dropdown, current_provider, store, sessions,
            items, placeholder_key, raised, peak_live, lastOp, lastReg>>

VARIABLES
    commands,      \* self.commands
    actionset_,    \* self._actionset (Unset until generate_actionset assigns it)
    games,         \* what get_games(self.base) returns when called now
    palette,       \* actionset providers registered with the palette, in order
    late_setups,   \* late_setup calls so far
    registered,    \* every (command, callback) passed to register_command, in order
    compiled_games,\* what get_games returned at the latest generate_actionset
    held,          \* the ActionSet the consumer's latest read gave it: as obtained
                   \* (aset), its items list's contents now, whether that list is
                   \* the list object self.commands (tracks), whether the registry
                   \* still holds this very object (current)
    lastS          \* the last operation on the Settings object

settingsVars == <<commands, actionset_, games, palette, late_setups, registered,
                  compiled_games, held, lastS>>

VARIABLES
    term,        \* the argument of Formattable.format
    formatted,   \* its result
    fmt_done     \* whether format has been applied to term

formatVars == <<term, formatted, fmt_done>>

vars == <<aiVars, settingsVars, formatVars>>

\* The view's fields as one record, so that handlers compose as the code's calls do.
View ==
    [chat |-> chat, api_key |-> api_key, api_providers |-> api_providers,
     dropdown |-> dropdown,
     current_provider |-> current_provider, store |-> store, sessions |-> sessions,
     items |-> items, placeholder_key |-> placeholder_key, raised |-> "",
     peak_live |-> peak_live]

SetView(v) ==
    /\ chat' = v.chat
    /\ api_key' = v.api_key
    /\ api_providers' = v.api_providers
    /\ dropdown' = v.dropdown
    /\ current_provider' = v.current_provider
    /\ store' = v.store
    /\ sessions' = v.sessions
    /\ items' = v.items
    /\ placeholder_key' = v.placeholder_key
    /\ raised' = v.raised
    /\ peak_live' = v.peak_live

Max(a, b) == IF a >= b THEN a ELSE b

\* ---------------------------------------------------------- secret store
\* SELECT value FROM secrets WHERE key=k; fetchone(): a 1-tuple, or None (<<>>).
NoRow == <<>>
fetchone(db, k) ==
    IF \E r \in db : r.key = k
    THEN <<(CHOOSE r \in db : r.key = k).value>>
    ELSE NoRow

\* INSERT OR REPLACE on a table whose primary key is key.
insert_plain(db, k, val) == db \cup {[key |-> k, value |-> val]}
insert_or_replace(db, k, val) ==
    {r \in db : r.key # k} \cup {[key |-> k, value |-> val]}

\* ------------------------------------------------------------- sessions
LiveCount(ss) == Cardinality({i \in 1..Len(ss) : ss[i].live})

\* tk destroy of the Chat widget.
destroy(ss, id) == [ss EXCEPT ![id].live = FALSE, ![id].destroys = @ + 1]

\* self.chat = None drops the only reference to the Chat: of an unreferenced
\* object the model keeps whether it is alive and how often it was destroyed.
release(ss, id) == [ss EXCEPT ![id].model = NoModel, ![id].provider = ""]

\* Chat(self): a new object, alive, no model set yet.
NewChat(provider) ==
    [live |-> TRUE, destroys |-> 0, model |-> NoModel, provider |-> provider]

\* ------------------------------------------------------------- handlers
get_model_instance_default(v) ==
    IF v.current_provider \in DOMAIN v.api_providers
    THEN [raised |-> "",
          value |-> [factory |-> v.api_providers[v.current_provider],
                     credential |-> v.api_key]]
    ELSE [raised |-> "",
          value |-> [factory |-> v.api_providers[DefaultProvider],
                     credential |-> v.api_key]]
get_model_instance(v) ==
    IF v.current_provider \in DOMAIN v.api_providers
    THEN [raised |-> "",
          value |-> [factory |-> v.api_providers[v.current_provider],
                     credential |-> v.api_key]]
    ELSE [raised |-> "KeyError", value |-> NoModel]

add_placeholder(v) ==
    LET v1 == [v EXCEPT !.items = @ \cup {PlaceholderItem}]
        v2 == IF v1.api_key # ""
              THEN [v1 EXCEPT !.placeholder_key = v1.api_key]
              ELSE v1
    IN IF v2.chat # None
       THEN [v2 EXCEPT !.items = @ \ {v2.chat},
                       !.sessions = destroy(@, v2.chat)]
       ELSE v2

\* add_chat, lines 126-130: the credential is written and committed.
persist(v) ==
    [v EXCEPT !.store = insert_or_replace(@, SecretKey, v.api_key)]

\* add_chat, lines 132-135: the previous chat is removed, destroyed and dropped.
teardown_skipped(v) == v
teardown(v) ==
    IF v.chat # None
    THEN [v EXCEPT !.items = @ \ {v.chat},
                   !.sessions = release(destroy(@, v.chat), v.chat),
                   !.chat = None]
    ELSE v

\* add_chat, lines 137-140: a Chat is constructed, given its model and shown.
construct(v) ==
    LET id == Len(v.sessions) + 1
        v1 == [v EXCEPT !.sessions = Append(@, NewChat(v.current_provider)),
                        !.chat = id]
        v2 == [v1 EXCEPT !.peak_live = Max(@, LiveCount(v1.sessions))]
        m  == get_model_instance(v2)
    IN IF m.raised # ""
       THEN [v2 EXCEPT !.raised = m.raised]
       ELSE [v2 EXCEPT !.sessions[id].model = m.value,
                       !.items = (@ \cup {id}) \ {PlaceholderItem}]

\* add_chat(api_key); the argument None is modelled as "" (both are falsy).
add_chat_unchecked(v, k) ==
    LET v1 == IF k # "" THEN [v EXCEPT !.api_key = k] ELSE v
    IN construct(teardown(persist(v1)))
add_chat_persist_late(v, k) ==
    LET v1 == IF k # "" THEN [v EXCEPT !.api_key = k] ELSE v
        v2 == construct(teardown(v1))
    IN IF v1.api_key = ""
       THEN add_placeholder(v1)
       ELSE IF v2.raised # "" THEN v2 ELSE persist(v2)
add_chat(v, k) ==
    LET v1 == IF k # "" THEN [v EXCEPT !.api_key = k] ELSE v
    IN IF v1.api_key = ""
       THEN add_placeholder(v1)
       ELSE construct(teardown(persist(v1)))

set_current_provider_always(v, provider) ==
    add_chat([v EXCEPT !.current_provider = provider], "")
set_current_provider(v, provider) ==
    IF provider = v.current_provider
    THEN v
    ELSE add_chat([v EXCEPT !.current_provider = provider], "")

register_provider_keep_first(v, provider, model) ==
    IF provider \in DOMAIN v.api_providers
    THEN v
    ELSE [v EXCEPT !.api_providers = (provider :> model) @@ @,
                   !.dropdown = @ \cup {provider}]
register_provider(v, provider, model) ==
    [v EXCEPT !.api_providers = (provider :> model) @@ @,
              !.dropdown = @ \cup {provider}]

\* new_chat; reset is the outcome of the Chat's own new_chat(): "ok" or "raised".
new_chat_propagate(v, reset) ==
    IF v.chat # None
    THEN IF reset = "ok" THEN v ELSE [v EXCEPT !.raised = "Exception"]
    ELSE add_chat(v, "")
new_chat(v, reset) ==
    IF v.chat # None /\ reset = "ok"
    THEN v
    ELSE add_chat(v, "")

\* attach_file; outcome is that of the Chat's own attach_file(): "ok" or "raised".
attach_file(v, outcome) ==
    IF v.chat # None /\ outcome = "raised"
    THEN [v EXCEPT !.raised = "Exception"]
    ELSE v

\* __init__ on the secrets.db found in the data directory.
AI_init_placeholder(db) ==
    add_placeholder(
        [chat |-> None, api_key |-> "",
         api_providers |-> (DefaultProvider :> DefaultFactory),
         dropdown |-> {DefaultProvider},
         current_provider |-> DefaultProvider, store |-> db, sessions |-> <<>>,
         items |-> {}, placeholder_key |-> "", raised |-> "", peak_live |-> 0])
AI_init(db) ==
    LET v0 == [chat |-> None, api_key |-> "",
               api_providers |-> (DefaultProvider :> DefaultFactory),
               dropdown |-> {DefaultProvider},
               current_provider |-> DefaultProvider, store |-> db,
               sessions |-> <<>>, items |-> {}, placeholder_key |-> "",
               raised |-> "", peak_live |-> 0]
        row == fetchone(v0.store, SecretKey)
    IN IF Len(row) > 0
       THEN add_chat(v0, row[1])
       ELSE add_placeholder(v0)


\* ------------------------------------------------------ AI view: actions
\* secrets.db as a run of the program can have left it: no credential yet or one
\* written by add_chat, next to rows of other keys.
InitialDBs ==
    {gem \cup other :
        gem \in {{}} \cup {{[key |-> SecretKey, value |-> c]} : c \in Credentials},
        other \in {{}, {[key |-> "OTHER_SECRET", value |-> "x"]}}}

NoOp == [op |-> "__init__", arg |-> "", reset |-> "n/a",
         prev_chat |-> None, prev_provider |-> DefaultProvider, prev_key |-> "",
         on_dead |-> FALSE]

AIInit ==
    \E db \in InitialDBs :
        LET v == AI_init(db)
        IN /\ chat = v.chat
           /\ api_key = v.api_key
           /\ api_providers = v.api_providers
           /\ dropdown = v.dropdown
           /\ current_provider = v.current_provider
           /\ store = v.store
           /\ sessions = v.sessions
           /\ items = v.items
           /\ placeholder_key = v.placeholder_key
           /\ raised = v.raised
           /\ peak_live = v.peak_live
           /\ lastOp = NoOp
           /\ lastReg = (DefaultProvider :> DefaultFactory)

\* The handlers that call a method of self.chat when it is set (lines 101, 155).
CallsChat(op) == op \in {"attach_file", "new_chat"}

\* One call of a handler: the view becomes v, and the call is recorded; on_dead
\* tells whether the call invoked a method of a Chat that was destroyed before.
Do(op, arg, reset, v) ==
    /\ Len(v.sessions) <= MaxSessions
    /\ \A i \in 1..Len(v.sessions) : v.sessions[i].destroys <= MaxDestroys
    /\ SetView(v)
    /\ lastOp' = [op |-> op, arg |-> arg, reset |-> reset, prev_chat |-> chat,
                  prev_provider |-> current_provider, prev_key |-> api_key,
                  on_dead |-> CallsChat(op) /\ chat # None /\ ~sessions[chat].live]
    /\ UNCHANGED <<settingsVars, formatVars>>

AddChat ==
    /\ \E k \in Credentials \cup {""} : Do("add_chat", k, "n/a", add_chat(View, k))
    /\ UNCHANGED lastReg

AddPlaceholder ==
    /\ Do("add_placeholder", "", "n/a", add_placeholder(View))
    /\ UNCHANGED lastReg

SetCurrentProvider ==
    /\ \E p \in ProviderNames :
           Do("set_current_provider", p, "n/a", set_current_provider(View, p))
    /\ UNCHANGED lastReg

RegisterProvider ==
    \E p \in RegistrableNames, f \in Factories :
        /\ Do("register_provider", p, "n/a", register_provider(View, p, f))
        /\ lastReg' = (p :> f) @@ lastReg

NewChatAction ==
    /\ \E reset \in (IF chat = None THEN {"n/a"} ELSE {"ok", "raised"}) :
           Do("new_chat", "", reset, new_chat(View, reset))
    /\ UNCHANGED lastReg

AttachFile ==
    /\ \E outcome \in (IF chat = None THEN {"n/a"} ELSE {"ok", "raised"}) :
           Do("attach_file", "", outcome, attach_file(View, outcome))
    /\ UNCHANGED lastReg


\* ============================================================= Settings
\* Bounds of the registry model.
MaxCommands == 3
MaxLateSetups == 1

\* Inputs: labels and callbacks of register_command, and what get_games finds.
Labels == {"x", "y"}
Callbacks == {"f", "g"}
GameLists == {<<>>, <<<<"tetris", "play">>>>, <<<<"tetris", "play">>, <<"snake", "play">>>>}
\* extract_commands(self.base.commands), formalized, as late_setup receives it.
EditorCommands == <<<<"Open File", "open_file">>, <<"Save File", "save_file">>>>

\* shares tells whether the items list is the very list object self.commands.
Unset == [title |-> "", prefix |-> "", items |-> <<>>, pinned |-> <<>>, set |-> FALSE,
          shares |-> FALSE]


\* ActionSet(title, prefix, items): a value object holding its arguments.
ActionSet(title, prefix, its) ==
    [title |-> title, prefix |-> prefix, items |-> its, pinned |-> <<>>, set |-> TRUE,
     shares |-> FALSE]

\* generate_actionset: the value assigned to self._actionset; the items are the
\* new list that self.commands + get_games(self.base) builds.
generate_actionset_aliased(cmds, gm) ==
    [ActionSet("Show and run commands", ">", cmds) EXCEPT !.shares = TRUE]
generate_actionset(cmds, gm) ==
    ActionSet("Show and run commands", ">", cmds \o gm)

\* The actionset property: self._actionset, AttributeError while it is unassigned.
actionset(aset) ==
    IF aset.set
    THEN [raised |-> "", value |-> aset]
    ELSE [raised |-> "AttributeError", value |-> Unset]

\* Nothing read yet.
NotHeld == [got |-> FALSE, aset |-> Unset, now |-> <<>>, tracks |-> FALSE,
            current |-> FALSE, raised |-> ""]

\* register_command: the command list and the actionset after the call; replaced
\* tells whether self._actionset was assigned a newly constructed ActionSet.
register_command_no_refresh(cmds, aset, gm, command, callback) ==
    [commands |-> Append(cmds, <<command, callback>>), actionset |-> aset,
     replaced |-> FALSE]
register_command(cmds, aset, gm, command, callback) ==
    LET c == Append(cmds, <<command, callback>>)
    IN [commands |-> c, actionset |-> generate_actionset(c, gm), replaced |-> TRUE]

\* late_setup: the command list is rebuilt from the editor's commands.
late_setup(cmds, gm) ==
    LET c == EditorCommands
    IN [commands |-> c, actionset |-> generate_actionset(c, gm), replaced |-> TRUE]

SettingsInit ==
    /\ commands = <<>>
    /\ actionset_ = Unset
    /\ games \in GameLists
    /\ palette = <<>>
    /\ late_setups = 0
    /\ registered = <<>>
    /\ compiled_games = <<>>
    /\ held = NotHeld
    /\ lastS = "__init__"

RegisterCommand ==
    \E command \in Labels, callback \in Callbacks :
        LET r == register_command(commands, actionset_, games, command, callback)
        IN /\ Len(registered) < MaxCommands
           /\ commands' = r.commands
           /\ actionset_' = r.actionset
           /\ registered' = Append(registered, <<command, callback>>)
           /\ compiled_games' = games
           /\ held' = [held EXCEPT
                          !.now = IF held.tracks
                                  THEN Append(@, <<command, callback>>)
                                  ELSE @,
                          !.current = @ /\ ~r.replaced]
           /\ lastS' = "register_command"
           /\ UNCHANGED <<games, palette, late_setups, aiVars, formatVars>>

LateSetup ==
    LET r == late_setup(commands, games)
    IN /\ late_setups < MaxLateSetups
       /\ commands' = r.commands
       /\ actionset_' = r.actionset
       /\ palette' = palette \o <<"commands", "clone", "symbols">>
       /\ late_setups' = late_setups + 1
       /\ compiled_games' = games
       /\ held' = [held EXCEPT !.tracks = FALSE, !.current = @ /\ ~r.replaced]
       /\ lastS' = "late_setup"
       /\ UNCHANGED <<games, registered, aiVars, formatVars>>

\* generate_actionset called on its own.
GenerateActionset ==
    /\ actionset_' = generate_actionset(commands, games)
    /\ compiled_games' = games
    /\ held' = [held EXCEPT !.current = FALSE]
    /\ lastS' = "generate_actionset"
    /\ UNCHANGED <<commands, games, palette, late_setups, registered, aiVars,
                   formatVars>>

\* The consumer reads the actionset accessor and keeps what it got.
ReadActionset ==
    LET r == actionset(actionset_)
    IN /\ held' = IF r.raised = ""
                  THEN [got |-> TRUE, aset |-> r.value, now |-> r.value.items,
                        tracks |-> r.value.shares, current |-> TRUE, raised |-> ""]
                  ELSE [held EXCEPT !.raised = r.raised]
       /\ lastS' = "read"
       /\ UNCHANGED <<commands, actionset_, games, palette, late_setups, registered,
                      compiled_games, aiVars, formatVars>>

\* The external source of games changes.
GamesChange ==
    /\ \E g \in GameLists : g # games /\ games' = g
    /\ lastS' = "games"
    /\ UNCHANGED <<commands, actionset_, palette, late_setups, registered,
                   compiled_games, held, aiVars, formatVars>>

\* ========================================================== Formattable
\* Strings are sequences of characters; "{}" is the template's replacement field.
MaxTail == 2

Field == "{}"
CloneTemplate == <<"c", "l", "o", "n", "e", " ", Field>>
GithubBase == <<"h", "t", "t", "p", "s", ":", "/", "/", "g", "i", "t", "h", "u", "b",
                ".", "c", "o", "m", "/">>


HasAt(t, i, c) == i <= Len(t) /\ t[i] = c

\* URL.match(term), URL = re.compile(r"^(?:http)s?:").
URL_match_slashes(t) ==
    /\ HasAt(t, 1, "h") /\ HasAt(t, 2, "t") /\ HasAt(t, 3, "t") /\ HasAt(t, 4, "p")
    /\ \/ HasAt(t, 5, ":") /\ HasAt(t, 6, "/") /\ HasAt(t, 7, "/")
       \/ HasAt(t, 5, "s") /\ HasAt(t, 6, ":") /\ HasAt(t, 7, "/") /\ HasAt(t, 8, "/")
URL_match(t) ==
    /\ HasAt(t, 1, "h") /\ HasAt(t, 2, "t") /\ HasAt(t, 3, "t") /\ HasAt(t, 4, "p")
    /\ \/ HasAt(t, 5, ":")
       \/ HasAt(t, 5, "s") /\ HasAt(t, 6, ":")

\* str.format(template, arg): the replacement field is filled with arg.
RECURSIVE str_format(_, _)
str_format(template, arg) ==
    IF template = <<>> THEN <<>>
    ELSE IF Head(template) = Field
         THEN arg \o str_format(Tail(template), arg)
         ELSE <<Head(template)>> \o str_format(Tail(template), arg)

\* Formattable.format(self, term).
format(self, t) ==
    IF t = <<>> \/ URL_match(t)
    THEN str_format(self, t)
    ELSE str_format(self, GithubBase \o t)

\* Terms: a head that does or does not look like a URL, and a short tail.
Heads ==
    {<<>>,
     <<"h", "t", "t", "p">>,
     <<"h", "t", "t", "p", "s">>,
     <<"h", "t", "t", "p", ":">>,
     <<"h", "t", "t", "p", "s", ":">>,
     <<"h", "t", "t", "p", ":", "/">>,
     <<"h", "t", "t", "p", ":", "/", "/">>,
     <<"h", "t", "t", "p", "s", ":", "/", "/">>,
     <<"h", "t", "t", "p", "s", "s", ":", "/", "/">>,
     <<"H", "T", "T", "P", ":", "/", "/">>,
     <<"H", "t", "t", "p", "s", ":", "/", "/">>,
     <<"h", "t", "t", "p", "S", ":", "/", "/">>,
     <<"f", "t", "p", ":", "/", "/">>,
     <<"x", "h", "t", "t", "p", ":", "/", "/">>,
     <<"o", "c", "t", "o", "c", "a", "t", "/">>}
TailChars == {"x", "/", ":"}
Tails == UNION {[1..n -> TailChars] : n \in 0..MaxTail}
OctocatRepo == <<"o", "c", "t", "o", "c", "a", "t", "/", "H", "e", "l", "l", "o", "-",
                 "W", "o", "r", "l", "d">>
ExampleUrl == <<"h", "t", "t", "p", "s", ":", "/", "/", "e", "x", "a", "m", "p", "l",
                "e", ".", "c", "o", "m", "/", "x">>
Terms == {h \o tl : h \in Heads, tl \in Tails} \cup {OctocatRepo, ExampleUrl}

FormatInit ==
    /\ term \in Terms
    /\ formatted = <<>>
    /\ fmt_done = FALSE

Format ==
    /\ ~fmt_done
    /\ formatted' = format(CloneTemplate, term)
    /\ fmt_done' = TRUE
    /\ UNCHANGED <<term, aiVars, settingsVars>>

\* ======================================================= specifications
AIIdle ==
    /\ chat = None /\ api_key = "" /\ api_providers = (DefaultProvider :> DefaultFactory)
    /\ dropdown = {DefaultProvider}
    /\ current_provider = DefaultProvider /\ store = {} /\ sessions = <<>>
    /\ items = {} /\ placeholder_key = "" /\ raised = "" /\ peak_live = 0
    /\ lastOp = NoOp /\ lastReg = (DefaultProvider :> DefaultFactory)
SettingsIdle ==
    /\ commands = <<>> /\ actionset_ = Unset /\ games = <<>> /\ palette = <<>>
    /\ late_setups = 0 /\ registered = <<>> /\ compiled_games = <<>>
    /\ held = NotHeld /\ lastS = "__init__"
FormatIdle ==
    /\ term = <<>> /\ formatted = <<>> /\ fmt_done = FALSE

Init == AIInit /\ SettingsIdle /\ FormatIdle
Next ==
    \/ AddChat
    \/ AddPlaceholder
    \/ SetCurrentProvider
    \/ RegisterProvider
    \/ NewChatAction
    \/ AttachFile
Spec == Init /\ [][Next]_vars

SettingsSpecInit == SettingsInit /\ AIIdle /\ FormatIdle
SettingsSpecNext ==
    \/ RegisterCommand
    \/ LateSetup
    \/ GenerateActionset
    \/ ReadActionset
    \/ GamesChange
SettingsSpec == SettingsSpecInit /\ [][SettingsSpecNext]_vars

FormatSpecInit == FormatInit /\ AIIdle /\ SettingsIdle
FormatSpecNext == Format
FormatSpec == FormatSpecInit /\ [][FormatSpecNext]_vars


\* =============================================================== claims
\* ---- states of the session controller
Active == chat # None /\ sessions[chat].live /\ sessions[chat].model # NoModel
Placeholder == PlaceholderItem \in items

\* The last call ran add_chat past its credential check, up to the factory lookup.
ReachedLookup ==
    /\ api_key # ""
    /\ \/ lastOp.op = "add_chat"
       \/ lastOp.op = "set_current_provider" /\ lastOp.arg # lastOp.prev_provider
       \/ lastOp.op = "new_chat" /\ (lastOp.prev_chat = None \/ lastOp.reset = "raised")

\* C1: after the Nth register_command call (and no other registry operation), the
\* ActionSet the accessor returns has as items exactly the N registered
\* (label, callback) pairs in registration order, duplicates kept, followed by the
\* games merged when it was compiled; and the ActionSet held is at all times the
\* compiled form of the current command list.
C1_ActionsetAfterRegister ==
    /\ actionset_.set => actionset_.items = commands \o compiled_games
    /\ (late_setups = 0 /\ Len(registered) >= 1) =>
           /\ actionset_.set
           /\ actionset_.items = registered \o compiled_games
           /\ SubSeq(actionset_.items, 1, Len(registered)) = registered

C1_Witness ==
    /\ late_setups = 0
    /\ Len(registered) = 3
    /\ registered[1][1] = registered[2][1]
    /\ registered[1] # registered[3]
    /\ compiled_games # <<>>
    /\ Len(actionset_.items) = 3 + Len(compiled_games)

\* C2: at most one Chat is alive (constructed and not destroyed) in every reachable
\* state, and at every point inside a handler: add_chat destroys the previous Chat
\* before it constructs the next.
C2_AtMostOneLiveSession ==
    /\ LiveCount(sessions) <= 1
    /\ peak_live <= 1

C2_Witness ==
    /\ Len(sessions) >= 2
    /\ ~sessions[1].live
    /\ chat = 2
    /\ sessions[2].live

\* The store key that is a provider's own, one per provider.
ProviderKey ==
    (DefaultProvider :> "GEMINI_API_KEY") @@ ("B" :> "B_API_KEY") @@ ("C" :> "C_API_KEY")

\* C3: set_current_provider(name) with another name than the current one ends Active
\* with a Chat built from the credential stored under name's own key when there is
\* one, and in Placeholder with no live Chat when there is none.
C3_PerProviderCredential ==
    (/\ lastOp.op = "set_current_provider"
     /\ lastOp.arg # lastOp.prev_provider
     /\ raised = "") =>
        LET row == fetchone(store, ProviderKey[lastOp.arg])
        IN IF Len(row) > 0
           THEN Active /\ sessions[chat].model.credential = row[1]
           ELSE Placeholder /\ LiveCount(sessions) = 0

\* C4: set_current_provider(name) with the current provider's name changes nothing:
\* no Chat is destroyed or constructed, the store is not written, the Chat held is
\* the one held before, and nothing is raised.
C4_SameProviderNoOp ==
    [][(lastOp'.op = "set_current_provider" /\ lastOp'.arg = current_provider) =>
          /\ UNCHANGED <<chat, sessions, store, api_key, api_providers, dropdown,
                         current_provider, items, placeholder_key, peak_live>>
          /\ raised' = ""]_vars

C4_Witness ==
    /\ lastOp.op = "set_current_provider"
    /\ lastOp.arg = lastOp.prev_provider
    /\ chat # None
    /\ chat = lastOp.prev_chat
    /\ sessions[chat].live

\* C5: the store holds at most one row per key, and after add_chat(v) with a
\* credential v the SELECT of the key returns v, whatever was stored before.
C5_PutIsUpsert ==
    /\ \A r1, r2 \in store : r1.key = r2.key => r1 = r2
    /\ (lastOp.op = "add_chat" /\ lastOp.arg # "") =>
           fetchone(store, SecretKey) = <<lastOp.arg>>

C5_Witness ==
    /\ lastOp.op = "add_chat"
    /\ lastOp.arg = "a2"
    /\ lastOp.prev_key = "a1"
    /\ lastOp.prev_chat # None
    /\ fetchone(store, SecretKey) = <<"a2">>
    /\ Cardinality(store) = 2

\* C7: when add_chat reaches the factory lookup while the current provider is not
\* registered, KeyError is raised to the caller and the Chat gets no model; a call
\* that returns normally has found the current provider registered.
C7_UnregisteredProviderRaises ==
    /\ (ReachedLookup /\ current_provider \notin DOMAIN api_providers) =>
           /\ raised = "KeyError"
           /\ chat # None
           /\ sessions[chat].model = NoModel
    /\ (ReachedLookup /\ raised = "") =>
           /\ current_provider \in DOMAIN api_providers
           /\ sessions[chat].model.factory = api_providers[current_provider]

C7_Witness ==
    /\ ReachedLookup
    /\ lastOp.op = "set_current_provider"
    /\ current_provider \notin DOMAIN api_providers
    /\ raised = "KeyError"

\* C8: new_chat with a Chat held: when the Chat's own reset succeeds the Chat is kept
\* and none is constructed; when it raises, that exception does not reach the caller
\* and add_chat runs, so that with the current provider registered the call returns
\* with a newly constructed live Chat built from the known credential.
C8_ResetFailureFallsThrough ==
    [][(lastOp'.op = "new_chat" /\ chat # None) =>
          IF lastOp'.reset = "ok"
          THEN /\ UNCHANGED <<chat, sessions, store, items>>
               /\ raised' = ""
          ELSE /\ raised' # "Exception"
               /\ (current_provider \in DOMAIN api_providers /\ api_key # "") =>
                      /\ raised' = ""
                      /\ Len(sessions') = Len(sessions) + 1
                      /\ chat' = Len(sessions')
                      /\ sessions'[chat'].live
                      /\ sessions'[chat'].model =
                             [factory |-> api_providers[current_provider],
                              credential |-> api_key]]_vars

C8_Witness ==
    /\ lastOp.op = "new_chat"
    /\ lastOp.reset = "raised"
    /\ lastOp.prev_chat # None
    /\ raised = ""
    /\ chat # lastOp.prev_chat
    /\ Active

\* C9: right after construction the view is Active, with a Chat built from the stored
\* credential, exactly when the store holds a non-empty credential under the default
\* provider's key; otherwise it shows the placeholder and holds no Chat; and the
\* construction raises nothing either way.
C9_ConstructionState ==
    lastOp.op = "__init__" =>
        LET row == fetchone(store, SecretKey)
        IN /\ raised = ""
           /\ IF Len(row) > 0 /\ row[1] # ""
              THEN /\ Active
                   /\ ~Placeholder
                   /\ sessions[chat].model =
                          [factory |-> DefaultFactory, credential |-> row[1]]
              ELSE /\ Placeholder
                   /\ chat = None
                   /\ sessions = <<>>

C9_Witness ==
    /\ lastOp.op = "__init__"
    /\ Active
    /\ fetchone(store, SecretKey) = <<"a1">>

\* C10: register_provider on a name already registered raises nothing and replaces
\* the factory: an activation under a name builds the model with the factory of the
\* latest register_provider call for that name.
C10_LastRegistrationWins ==
    /\ lastOp.op = "register_provider" =>
           /\ raised = ""
           /\ api_providers[lastOp.arg] = lastReg[lastOp.arg]
    /\ (ReachedLookup /\ raised = "") =>
           sessions[chat].model.factory = lastReg[current_provider]

C10_Witness ==
    /\ ReachedLookup
    /\ raised = ""
    /\ current_provider = DefaultProvider
    /\ lastReg[DefaultProvider] = "F1"
    /\ sessions[chat].model.factory = "F1"

\* ---- Formattable
StartsWith(t, p) == Len(t) >= Len(p) /\ SubSeq(t, 1, Len(p)) = p
\* "clone {}" with its field filled by a.
Filled(a) == <<"c", "l", "o", "n", "e", " ">> \o a

\* C6 (as claimed): the term is used verbatim exactly when it is empty or begins with
\* http:// or https://, and gets https://github.com/ prepended otherwise.
C6_VerbatimIffSchemeSlashes ==
    fmt_done =>
        formatted =
            IF \/ term = <<>>
               \/ StartsWith(term, <<"h", "t", "t", "p", ":", "/", "/">>)
               \/ StartsWith(term, <<"h", "t", "t", "p", "s", ":", "/", "/">>)
            THEN Filled(term)
            ELSE Filled(GithubBase \o term)

\* C6 (amended): the term is used verbatim exactly when it is empty or begins with
\* http: or https: (lower case, no // required), and gets https://github.com/
\* prepended otherwise; octocat/Hello-World gets the base, https://example.com/x
\* is unchanged.
C6_VerbatimIffSchemeColon ==
    fmt_done =>
        /\ formatted =
               IF \/ term = <<>>
                  \/ StartsWith(term, <<"h", "t", "t", "p", ":">>)
                  \/ StartsWith(term, <<"h", "t", "t", "p", "s", ":">>)
               THEN Filled(term)
               ELSE Filled(GithubBase \o term)
        /\ term = OctocatRepo => formatted = Filled(GithubBase \o OctocatRepo)
        /\ term = ExampleUrl => formatted = Filled(ExampleUrl)
        /\ term = <<>> => formatted = Filled(<<>>)

C6_Witness ==
    /\ fmt_done
    /\ term = <<"h", "t", "t", "p", ":", "x">>
    /\ formatted = Filled(term)


\* ---- AI view, continued
\* C11: add_chat(credential) while provider P is current writes the credential
\* under P's own key only: what is stored under the key of every other provider
\* is the same after the call as before it.
C11_OtherProvidersUntouched ==
    [][(lastOp'.op = "add_chat" /\ lastOp'.arg # "") =>
          \A q \in ProviderNames \ {current_provider} :
              fetchone(store', ProviderKey[q]) = fetchone(store, ProviderKey[q])]_vars

\* C15: add_chat() without a credential while none is known ends in Placeholder,
\* raises nothing, constructs no Chat and leaves the store without a credential;
\* and no row of the store ever holds an empty value.
C15_NoCredentialNoWrite ==
    /\ (lastOp.op = "add_chat" /\ lastOp.arg = "" /\ lastOp.prev_key = "") =>
           /\ Placeholder
           /\ raised = ""
           /\ api_key = ""
           /\ chat = None
           /\ sessions = <<>>
           /\ fetchone(store, SecretKey) = NoRow
    /\ \A r \in store : r.value # ""

C15_Witness ==
    /\ lastOp.op = "add_chat"
    /\ lastOp.arg = ""
    /\ lastOp.prev_key = ""
    /\ Placeholder
    /\ store = {[key |-> "OTHER_SECRET", value |-> "x"]}

\* C16: add_chat writes the credential to the store before it looks the factory up
\* and constructs the Chat: once the lookup is reached the store holds the
\* credential, also when the lookup raises; and whenever the view is Active the
\* stored credential is the one the live Chat's model was built with.
C16_PersistBeforeConstruct ==
    /\ ReachedLookup => fetchone(store, SecretKey) = <<api_key>>
    /\ Active => fetchone(store, SecretKey) = <<sessions[chat].model.credential>>

C16_Witness ==
    /\ ReachedLookup
    /\ raised = "KeyError"
    /\ lastOp.op = "add_chat"
    /\ lastOp.arg = "a2"
    /\ lastOp.prev_key = "a1"
    /\ fetchone(store, SecretKey) = <<"a2">>

\* C18: a chat reference the view holds between operations refers to a Chat that
\* has not been destroyed, and no handler invokes a method of a destroyed Chat.
C18_NoDestroyedChatHeld ==
    /\ chat # None => sessions[chat].live
    /\ ~lastOp.on_dead

\* C19: every Chat is destroyed at most once.
C19_DestroyedAtMostOnce ==
    \A i \in 1..Len(sessions) : sessions[i].destroys <= 1

\* C20: a set_current_provider(name) whose factory lookup raises leaves the view as
\* it was: the current provider and the Chat held are those of before the call.
C20_FailedSwitchChangesNothing ==
    (lastOp.op = "set_current_provider" /\ raised = "KeyError") =>
        /\ current_provider = lastOp.prev_provider
        /\ chat = lastOp.prev_chat


\* ---- Settings, continued
IsPrefix(a, b) == Len(a) <= Len(b) /\ SubSeq(b, 1, Len(a)) = a
InItems(c, its) == \E i \in 1..Len(its) : its[i] = c

\* C12: the games merged into the ActionSet are those of the moment the consumer
\* reads the accessor: what a read returns is the command list followed by what
\* get_games returns now, also when the source changed since the last
\* register_command.
C12_ExtrasRecomputedOnRead ==
    (lastS = "read" /\ held.raised = "") => held.aset.items = commands \o games

\* C13: the command list only grows: every operation leaves the list it found as a
\* prefix of the list it leaves, so every command passed to register_command stays
\* in the ActionSet, also after late_setup.
C13_CommandsOnlyGrow ==
    [][/\ IsPrefix(commands, commands')
       /\ actionset_'.set =>
              \A i \in 1..Len(registered') : InItems(registered'[i], actionset_'.items)
      ]_vars

\* C14: reading the actionset accessor never raises, at any moment after the
\* Settings object is constructed.
C14_ReadNeverFails ==
    held.raised = ""

\* C17: an ActionSet the consumer obtained is never mutated afterwards: the contents
\* of its items list stay what they were when it was read, its items list is not
\* the list object self.commands, and a register_command after the read leaves the
\* registry holding another ActionSet, with the new command in it.
C17_ObtainedActionsetImmutable ==
    held.got =>
        /\ held.now = held.aset.items
        /\ ~held.tracks
        /\ lastS = "register_command" =>
               /\ ~held.current
               /\ InItems(registered[Len(registered)], actionset_.items)

C17_Witness ==
    /\ held.got
    /\ lastS = "register_command"
    /\ Len(held.aset.items) >= 2
    /\ held.now = held.aset.items
    /\ Len(commands) = 3
    /\ ~held.current
    /\ actionset_.items # held.now

====
